---- MODULE Spec2Model ----
(***************************************************************************)
(* The crew tool's subprocess invocation engine (CrewTool.invokeCrew): one *)
(* invocation of the Python crew CLI, from the validation of its options   *)
(* to the CrewResult, with the child process, its two output streams and   *)
(* the timers of the invocation as the environment. The deadline callback  *)
(* is the one of the design's "Timeout Implementation" (SIGTERM, then a    *)
(* second timer for SIGKILL); the rest is the invokeCrew listing.          *)
(*                                                                         *)
(* Strings are sequences of tokens: identifiers are sequences of single    *)
(* characters, stream content is a sequence of the chunks' tokens. Time is *)
(* in milliseconds. Timers are punctual: time does not pass a pending      *)
(* timer's due instant, nor an exit the runtime has yet to report.         *)
(*                                                                         *)
(* Spec is one invocation. SpecValidators is one direct call of a pure     *)
(* function (the zod schemas, the env of the child, listCrews, parseArgs   *)
(* of the sandbox executor) on a value of any type. SpecConcurrent is two  *)
(* invocations in flight on one tool. SpecSandbox is one run of the        *)
(* sandbox executor: main, the race of the runtime with the timeout timer, *)
(* and the custom runtime with its child.                                  *)
(***************************************************************************)
EXTENDS Integers, Sequences, FiniteSets, TLC

VARIABLES
    config,        \* the CrewToolConfig the tool was constructed with
    pc,            \* "idle" | "awaiting" | "returned" | "rejected"
    options,       \* the InvokeCrewOptions of the call
    now,           \* Date.now()
    startTime,     \* the start timestamp of the call
    effTimeout,    \* const timeout = options.timeout ?? config.defaultTimeout
    proc,          \* the child: what the OS knows and what the ChildProcess object knows
    timeoutHandle, \* the deadline timer
    graceTimer,    \* the timer the deadline callback creates
    stdout,        \* let stdout = ''
    stderr,        \* let stderr = ''
    pipeOut,       \* chunks written to the child's stdout, no 'data' event yet
    pipeErr,       \* chunks written to the child's stderr, no 'data' event yet
    writes,        \* chunks the child has written so far
    result,        \* the CrewResult the call resolved with
    thrown,        \* the error the call rejected with
    uncaught,      \* an 'error' event was emitted and nobody listened
    signals,       \* history: the signals delivered to the child, with their instants
    spawnCount,    \* history: calls of spawn
    timersCreated, \* history: calls of setTimeout
    settled,       \* history: how often the call's promise was settled
    exitSeenAt,    \* history: the instant of the 'exit' event, -1 before
    killSentAtExit, \* history: whether SIGKILL had been delivered when 'exit' was seen
    callArg,       \* a direct call of a validator or of the env merge: its arguments
    callRet,       \* what that call returned or threw
    calls,         \* concurrent invocations on one tool: the locals of each call
    argv,          \* sandbox executor: process.argv.slice(2)
    sandboxEnv,    \* sandbox executor: AGENTIC_SANDBOX_TIMEOUT and AGENTIC_CUSTOM_SCRIPT
    mainPc,        \* "idle" | "racing" | "extracting" | "returned" | "exited"
    mainOptions,   \* const options = parseArgs(args)
    raceTimer,     \* the timer of timeoutPromise
    runtimePromise, \* the promise runtime(options.prompt, options) returned
    race,          \* the promise of Promise.race([...]) and which of the two settled it
    customProc,    \* the child of customRuntime
    printed,       \* history: what main wrote to the console
    extractCalls,  \* history: calls of extractOutput
    processExit    \* whether the process is alive, and its exit code when it is not

\* the state of one invocation other than the tool's config and the clock
callVars ==
        << pc, options, startTime, effTimeout, proc, timeoutHandle, graceTimer, stdout,
           stderr, pipeOut, pipeErr, writes, result, thrown, uncaught, signals,
           spawnCount, timersCreated, settled, exitSeenAt, killSentAtExit >>

invocationVars == << config, now, callVars >>

\* the state of the sandbox executor other than the clock
sandboxVars ==
        << argv, sandboxEnv, mainPc, mainOptions, raceTimer, runtimePromise, race,
           customProc, printed, extractCalls, processExit >>

vars == << invocationVars, callArg, callRet, calls, sandboxVars >>

(***************************************************************************)
(* Bounds of the model.                                                    *)
(***************************************************************************)
TickMs == 1000
MaxTime == 10000
MaxWrites == 2
MaxChunks == 1

Min(a, b) == IF a <= b THEN a ELSE b

(***************************************************************************)
(* Validation (zod schemas).                                               *)
(***************************************************************************)
\* the character class [a-zA-Z0-9_-], on the characters the model uses
IdentChars == {"a", "b", "g", "k", "n", "p", "Z", "9", "_", "-"}

\* the pattern without its anchors: one good character anywhere is enough
IdentOk_Unanchored(s) == \E i \in 1..Len(s) : s[i] \in IdentChars

\* z.string().min(1).regex(/^[a-zA-Z0-9_-]+$/)
IdentOk(s) == Len(s) >= 1 /\ \A i \in 1..Len(s) : s[i] \in IdentChars

\* z.number().positive().optional()
TimeoutOk(o) == "timeout" \in DOMAIN o => o.timeout > 0

\* the first failing field of InvokeCrewOptionsSchema, "" when the options parse
InvokeOptionsIssue(o) ==
    IF ~IdentOk(o.package) THEN "package"
    ELSE IF ~IdentOk(o.crew) THEN "crew"
    ELSE IF ~TimeoutOk(o) THEN "timeout"
    ELSE ""

\* validateInvokeOptions: parse succeeds or throws a ZodError
ValidateInvokeOptionsThrows(o) == InvokeOptionsIssue(o) # ""

\* the ZodError of a failed parse: its first issue names the failing field
ZodErrorOf(o) == [name |-> "ZodError", path |-> InvokeOptionsIssue(o)]

\* this.validateOptions(options) of CrewTool: the schema decides, the failure is
\* raised as a CrewToolError of category validation
ValidateOptionsError(o) ==
    [name |-> "CrewToolError", category |-> "validation", cause |-> ZodErrorOf(o)]

(***************************************************************************)
(* Strings.                                                                *)
(***************************************************************************)
Whitespace == {" "}

RECURSIVE TrimStart(_)
TrimStart(s) ==
    IF s # << >> /\ Head(s) \in Whitespace THEN TrimStart(Tail(s)) ELSE s

RECURSIVE TrimEnd(_)
TrimEnd(s) ==
    IF s # << >> /\ s[Len(s)] \in Whitespace THEN TrimEnd(SubSeq(s, 1, Len(s) - 1)) ELSE s

\* a trim of the leading whitespace only
Trim_StartOnly(s) == TrimStart(s)

\* String.prototype.trim
Trim(s) == TrimEnd(TrimStart(s))

\* a listener that puts the new data in front of what it has
Collect_Prepend(buffer, data) == << data >> \o buffer

\* stdout += data; stderr += data
Collect(buffer, data) == Append(buffer, data)

\* String.prototype.includes, for a one-token needle
Includes(s, tok) == \E i \in 1..Len(s) : s[i] = tok

(***************************************************************************)
(* The inputs of the model.                                                *)
(***************************************************************************)
DefaultTimeouts == {2000, 4000}

\* the env of the configuration given to the constructor
BaseEnv == [k \in {"A"} |-> "0"]

Configs ==
    { [pythonExecutable |-> "uv", defaultTimeout |-> d, env |-> BaseEnv] : d \in DefaultTimeouts }

GoodPackage == << "p", "k", "g" >>
GoodCrew == << "a", "-", "_", "9" >>
Payload == << "x" >>

ValidRequests ==
    { [package |-> GoodPackage, crew |-> GoodCrew, input |-> Payload] }
    \cup { [package |-> GoodPackage, crew |-> GoodCrew, input |-> Payload, timeout |-> t]
           : t \in {1000, 3000} }

InvalidRequests ==
    { [package |-> p, crew |-> GoodCrew, input |-> Payload]
      : p \in { << >>, << "b", " ", "n" >>, << "p", "!" >> } }
    \cup { [package |-> GoodPackage, crew |-> c, input |-> Payload, timeout |-> 1000]
           : c \in { << >>, << "a", "/" >> } }
    \cup { [package |-> GoodPackage, crew |-> GoodCrew, input |-> Payload, timeout |-> t]
           : t \in {0, -1} }

Requests == ValidRequests \cup InvalidRequests

\* what child_process.spawn can do: start the child, report the failure with an
\* 'error' event on the next tick (ENOENT, EACCES, ...), or throw (any other errno)
SpawnOutcomes == {"ok", "error_event", "throws"}

StartTimes == {0, 1000}
ExitCodes == {0, 2}
StdoutChunks == {"ok", " "}
StderrChunks == {"boom", "timed out"}

NoOptions == [none |-> TRUE]
NoResult == [none |-> TRUE]
NoError == [none |-> TRUE]
NoTimer == [state |-> "none", due |-> 0]
NoProc == [os |-> "none", handle |-> FALSE, status |-> [none |-> TRUE]]
NoCall == [none |-> TRUE]
NoEnv == [none |-> "unset"]

\* a promise: pending, resolved with a value or rejected with a message
Pending == [kind |-> "pending"]
Resolved(v) == [kind |-> "resolved", value |-> v]
Rejected(m) == [kind |-> "rejected", message |-> m]

\* a process: alive, or gone with its exit code
Alive == [alive |-> TRUE]
Exited(code) == [alive |-> FALSE, code |-> code]

\* the child of customRuntime before spawn
NoCustomProc == [state |-> "none"]

\* the race before anything has settled it
NoRace == [settled |-> Pending, by |-> "none", at |-> 0]

\* the invocations in flight on one CrewTool
CallIds == {1, 2}

\* the locals of an invocation that has not been called
IdleCall ==
    [pc |-> "idle", options |-> NoOptions, startTime |-> 0, proc |-> NoProc,
     timeoutHandle |-> NoTimer, graceTimer |-> NoTimer, stdout |-> << >>,
     stderr |-> << >>, writes |-> 0, result |-> NoResult, thrown |-> NoError,
     signalledBy |-> {}, spawnEnv |-> NoEnv]

(***************************************************************************)
(* invokeCrew, piece by piece.                                             *)
(***************************************************************************)
\* const timeout = options.timeout ?? this.config.defaultTimeout
EffectiveTimeout(o, c) ==
    IF "timeout" \in DOMAIN o THEN o.timeout ELSE c.defaultTimeout

\* a call that stores what it was given in the tool's configuration
ConfigAfterCall_KeepsOverride(c, o) ==
    [c EXCEPT !.defaultTimeout = EffectiveTimeout(o, c),
              !.env = IF "env" \in DOMAIN o
                      THEN [k \in DOMAIN c.env \cup DOMAIN o.env |->
                               IF k \in DOMAIN o.env THEN o.env[k] ELSE c.env[k]]
                      ELSE c.env]

\* this.config after a call: invokeCrew reads this.config.pythonExecutable and
\* this.config.defaultTimeout and assigns nothing to this.config
ConfigAfterCall(c, o) == c

\* setTimeout(() => proc.kill('SIGKILL'), 5000)
KILL_GRACE_MS == 5000

\* a deadline callback that kills at once
DeadlineSignal_Forced == "SIGKILL"

\* the signal of the deadline callback: proc.kill('SIGTERM')
DeadlineSignal == "SIGTERM"

\* the signal of the callback it schedules: proc.kill('SIGKILL')
GraceSignal == "SIGKILL"

\* setTimeout(callback, delay) called at instant t
SetTimeout(t, delay) == [state |-> "pending", due |-> t + delay]

\* a timer that stays pending after its callback has run
Fired_StillPending(h) == h

\* the callback of a setTimeout timer runs once: the timer is pending no more
Fired(h) == [h EXCEPT !.state = "fired"]

\* clearTimeout(handle): nothing to do for a timer that fired or never was
ClearTimeout(h) == IF h.state = "pending" THEN [h EXCEPT !.state = "cleared"] ELSE h

\* proc.on('exit', (code) => resolve(code ?? 1)): code is null for a child a signal ended
ExitCodeOf(status) == IF "code" \in DOMAIN status THEN status.code ELSE 1

\* a duration measured from a start taken when the result is built
Duration_FromLateStart(t, start) == t - t

\* duration: Date.now() - startTime
Duration(t, start) == t - start

\* a result builder that reports the generic message whatever stderr holds
BuildResult_GenericError(exitCode, out, err, duration) ==
    IF exitCode = 0
    THEN [success |-> TRUE, output |-> Trim(out), exitCode |-> exitCode,
          duration |-> duration]
    ELSE [success |-> FALSE, error |-> << "Crew execution failed" >>,
          exitCode |-> exitCode, duration |-> duration]

\* a result builder that keeps the partial output in a failed result
BuildResult_PartialOutput(exitCode, out, err, duration) ==
    IF exitCode = 0
    THEN [success |-> TRUE, output |-> Trim(out), exitCode |-> exitCode,
          duration |-> duration]
    ELSE [success |-> FALSE, output |-> Trim(out),
          error |-> IF err # << >> THEN err ELSE << "Crew execution failed" >>,
          exitCode |-> exitCode, duration |-> duration]

\* a result builder that reports a timeout once the deadline callback has run
BuildResult_TimeoutWins(exitCode, out, err, duration) ==
    IF timeoutHandle.state = "fired"
    THEN [success |-> FALSE, error |-> << "Crew execution", "timed out" >>,
          duration |-> duration]
    ELSE IF exitCode = 0
    THEN [success |-> TRUE, output |-> Trim(out), exitCode |-> exitCode,
          duration |-> duration]
    ELSE [success |-> FALSE,
          error |-> IF err # << >> THEN err ELSE << "Crew execution failed" >>,
          exitCode |-> exitCode, duration |-> duration]

\* a result builder whose error is stderr as it is, with no fallback
BuildResult_RawStderr(exitCode, out, err, duration) ==
    IF exitCode = 0
    THEN [success |-> TRUE, output |-> Trim(out), exitCode |-> exitCode,
          duration |-> duration]
    ELSE [success |-> FALSE, error |-> err, exitCode |-> exitCode,
          duration |-> duration]

\* a result builder that fails a call whose child wrote to stderr
BuildResult_StderrFails(exitCode, out, err, duration) ==
    IF exitCode = 0 /\ err = << >>
    THEN [success |-> TRUE, output |-> Trim(out), exitCode |-> exitCode,
          duration |-> duration]
    ELSE [success |-> FALSE,
          error |-> IF err # << >> THEN err ELSE << "Crew execution failed" >>,
          exitCode |-> exitCode, duration |-> duration]

\* the two result literals of invokeCrew
BuildResult(exitCode, out, err, duration) ==
    IF exitCode = 0
    THEN [success |-> TRUE, output |-> Trim(out), exitCode |-> exitCode,
          duration |-> duration]
    ELSE [success |-> FALSE,
          error |-> IF err # << >> THEN err ELSE << "Crew execution failed" >>,
          exitCode |-> exitCode, duration |-> duration]

\* the catch block: a CrewToolError is rethrown, anything else is wrapped
CatchBlock(e) ==
    IF e.name = "CrewToolError" THEN e
    ELSE [name |-> "CrewToolError", category |-> "subprocess"]

\* ChildProcess.kill(sig) reaches the child only while the object holds its handle
KillDelivers(p) == p.handle

\* the child after kill(sig): SIGKILL ends a running child, SIGTERM ends it unless
\* the child handles the signal; a child that has exited keeps its exit status
Killed(p, sig, obeys) ==
    IF KillDelivers(p) /\ p.os = "running" /\ (sig = "SIGKILL" \/ obeys)
    THEN [p EXCEPT !.os = "zombie", !.status = [signal |-> sig]]
    ELSE p

LogSignal(p, sig) ==
    IF KillDelivers(p)
    THEN Append(signals, [sig |-> sig, at |-> now, running |-> p.os = "running",
                          exitSeen |-> exitSeenAt # -1,
                          afterReturn |-> pc # "awaiting"])
    ELSE signals

(***************************************************************************)
(* The state after construction.                                           *)
(***************************************************************************)
Init ==
    /\ config \in Configs
    /\ now \in StartTimes
    /\ pc = "idle"
    /\ options = NoOptions
    /\ startTime = 0
    /\ effTimeout = 0
    /\ proc = NoProc
    /\ timeoutHandle = NoTimer
    /\ graceTimer = NoTimer
    /\ stdout = << >>
    /\ stderr = << >>
    /\ pipeOut = << >>
    /\ pipeErr = << >>
    /\ writes = 0
    /\ result = NoResult
    /\ thrown = NoError
    /\ uncaught = FALSE
    /\ signals = << >>
    /\ spawnCount = 0
    /\ timersCreated = 0
    /\ settled = 0
    /\ exitSeenAt = -1
    /\ killSentAtExit = FALSE
    /\ callArg = NoCall
    /\ callRet = NoCall
    /\ calls = [i \in CallIds |-> IdleCall]
    /\ argv = << >>
    /\ sandboxEnv = NoOptions
    /\ mainPc = "idle"
    /\ mainOptions = NoOptions
    /\ raceTimer = NoTimer
    /\ runtimePromise = Pending
    /\ race = NoRace
    /\ customProc = NoCustomProc
    /\ printed = {}
    /\ extractCalls = 0
    /\ processExit = Alive

(***************************************************************************)
(* The call: everything invokeCrew does before it first awaits.            *)
(***************************************************************************)
InvokeCrew(o, outcome) ==
    /\ pc = "idle"
    /\ options' = o
    /\ startTime' = now
    /\ IF ValidateInvokeOptionsThrows(o)
       THEN \* this.validateOptions(options) throws: nothing after it runs
            /\ thrown' = CatchBlock(ValidateOptionsError(o))
            /\ pc' = "rejected"
            /\ settled' = settled + 1
            /\ UNCHANGED << effTimeout, proc, timeoutHandle, uncaught, spawnCount,
                            timersCreated >>
       ELSE IF outcome = "throws"
       THEN \* spawn throws: the catch block wraps the error
            /\ spawnCount' = spawnCount + 1
            /\ thrown' = CatchBlock([name |-> "Error", syscall |-> "spawn"])
            /\ pc' = "rejected"
            /\ settled' = settled + 1
            /\ UNCHANGED << effTimeout, proc, timeoutHandle, uncaught, timersCreated >>
       ELSE \* spawn returns a ChildProcess; the timer is set, the listeners attached
            /\ spawnCount' = spawnCount + 1
            /\ effTimeout' = EffectiveTimeout(o, config)
            /\ timeoutHandle' = SetTimeout(now, EffectiveTimeout(o, config))
            /\ timersCreated' = timersCreated + 1
            /\ proc' = IF outcome = "ok"
                       THEN [os |-> "running", handle |-> TRUE, status |-> [none |-> TRUE]]
                       ELSE NoProc
            \* a failed spawn emits 'error' on the next tick; there is no 'error'
            \* listener, so the event is an uncaught exception and 'exit' never comes
            /\ uncaught' = (outcome = "error_event")
            /\ pc' = "awaiting"
            /\ UNCHANGED << thrown, settled >>
    /\ config' = ConfigAfterCall(config, o)
    /\ UNCHANGED << now, graceTimer, stdout, stderr, pipeOut, pipeErr, writes,
                    result, signals, exitSeenAt, killSentAtExit >>
    /\ UNCHANGED << callArg, callRet, calls, sandboxVars >>

(***************************************************************************)
(* The child and its streams.                                              *)
(***************************************************************************)
ProcWritesStdout(chunk) ==
    /\ proc.os = "running"
    /\ writes < MaxWrites
    /\ pipeOut' = Append(pipeOut, chunk)
    /\ writes' = writes + 1
    /\ UNCHANGED << config, pc, options, now, startTime, effTimeout, proc, timeoutHandle,
                    graceTimer, stdout, stderr, pipeErr, result, thrown, uncaught,
                    signals, spawnCount, timersCreated, settled, exitSeenAt,
                    killSentAtExit >>
    /\ UNCHANGED << callArg, callRet, calls, sandboxVars >>

ProcWritesStderr(chunk) ==
    /\ proc.os = "running"
    /\ writes < MaxWrites
    /\ pipeErr' = Append(pipeErr, chunk)
    /\ writes' = writes + 1
    /\ UNCHANGED << config, pc, options, now, startTime, effTimeout, proc, timeoutHandle,
                    graceTimer, stdout, stderr, pipeOut, result, thrown, uncaught,
                    signals, spawnCount, timersCreated, settled, exitSeenAt,
                    killSentAtExit >>
    /\ UNCHANGED << callArg, callRet, calls, sandboxVars >>

\* the child exits on its own
ProcExits(code) ==
    /\ proc.os = "running"
    /\ proc' = [proc EXCEPT !.os = "zombie", !.status = [code |-> code]]
    /\ UNCHANGED << config, pc, options, now, startTime, effTimeout, timeoutHandle,
                    graceTimer, stdout, stderr, pipeOut, pipeErr, writes, result, thrown,
                    uncaught, signals, spawnCount, timersCreated, settled, exitSeenAt,
                    killSentAtExit >>
    /\ UNCHANGED << callArg, callRet, calls, sandboxVars >>

\* proc.stdout.on('data', (data) => { stdout += data; })
StdoutData ==
    /\ pipeOut # << >>
    /\ stdout' = Collect(stdout, Head(pipeOut))
    /\ pipeOut' = Tail(pipeOut)
    /\ UNCHANGED << config, pc, options, now, startTime, effTimeout, proc, timeoutHandle,
                    graceTimer, stderr, pipeErr, writes, result, thrown, uncaught,
                    signals, spawnCount, timersCreated, settled, exitSeenAt,
                    killSentAtExit >>
    /\ UNCHANGED << callArg, callRet, calls, sandboxVars >>

\* proc.stderr.on('data', (data) => { stderr += data; })
StderrData ==
    /\ pipeErr # << >>
    /\ stderr' = Collect(stderr, Head(pipeErr))
    /\ pipeErr' = Tail(pipeErr)
    /\ UNCHANGED << config, pc, options, now, startTime, effTimeout, proc, timeoutHandle,
                    graceTimer, stdout, pipeOut, writes, result, thrown, uncaught,
                    signals, spawnCount, timersCreated, settled, exitSeenAt,
                    killSentAtExit >>
    /\ UNCHANGED << callArg, callRet, calls, sandboxVars >>

(***************************************************************************)
(* The 'exit' event and the rest of invokeCrew, which runs right after it. *)
(***************************************************************************)
ExitEvent ==
    /\ proc.os = "zombie"
    /\ proc.handle
    /\ pc = "awaiting"
    /\ proc' = [proc EXCEPT !.os = "reaped", !.handle = FALSE]
    /\ exitSeenAt' = now
    /\ killSentAtExit' = (\E i \in 1..Len(signals) : signals[i].sig = GraceSignal)
    /\ timeoutHandle' = ClearTimeout(timeoutHandle)
    /\ result' = BuildResult(ExitCodeOf(proc.status), stdout, stderr,
                           Duration(now, startTime))
    /\ pc' = "returned"
    /\ settled' = settled + 1
    /\ UNCHANGED << config, options, now, startTime, effTimeout, graceTimer, stdout,
                    stderr, pipeOut, pipeErr, writes, thrown, uncaught, signals,
                    spawnCount, timersCreated >>
    /\ UNCHANGED << callArg, callRet, calls, sandboxVars >>

(***************************************************************************)
(* The timers.                                                             *)
(***************************************************************************)
\* the deadline callback: proc.kill('SIGTERM'); setTimeout(..., 5000)
DeadlineFires(obeys) ==
    /\ timeoutHandle.state = "pending"
    /\ now >= timeoutHandle.due
    /\ timeoutHandle' = Fired(timeoutHandle)
    /\ signals' = LogSignal(proc, DeadlineSignal)
    /\ proc' = Killed(proc, DeadlineSignal, obeys)
    /\ graceTimer' = SetTimeout(now, KILL_GRACE_MS)
    /\ timersCreated' = timersCreated + 1
    /\ UNCHANGED << config, pc, options, now, startTime, effTimeout, stdout, stderr,
                    pipeOut, pipeErr, writes, result, thrown, uncaught, spawnCount,
                    settled, exitSeenAt, killSentAtExit >>
    /\ UNCHANGED << callArg, callRet, calls, sandboxVars >>

\* the callback of the second timer: proc.kill('SIGKILL')
GraceFires ==
    /\ graceTimer.state = "pending"
    /\ now >= graceTimer.due
    /\ graceTimer' = Fired(graceTimer)
    /\ signals' = LogSignal(proc, GraceSignal)
    /\ proc' = Killed(proc, GraceSignal, TRUE)
    /\ UNCHANGED << config, pc, options, now, startTime, effTimeout, timeoutHandle,
                    stdout, stderr, pipeOut, pipeErr, writes, result, thrown, uncaught,
                    spawnCount, timersCreated, settled, exitSeenAt, killSentAtExit >>
    /\ UNCHANGED << callArg, callRet, calls, sandboxVars >>

PendingDues ==
    { h.due : h \in { t \in {timeoutHandle, graceTimer} : t.state = "pending" } }

NextDue == IF PendingDues = {} THEN MaxTime
           ELSE CHOOSE d \in PendingDues : \A e \in PendingDues : d <= e

\* time passes, up to the next timer; an exit of the child is reported at once
Tick ==
    /\ now < MaxTime
    /\ pc = "awaiting" \/ PendingDues # {}
    /\ proc.os # "zombie"
    /\ \A d \in PendingDues : now < d
    /\ now' = Min(Min(now + TickMs, NextDue), MaxTime)
    /\ UNCHANGED << config, pc, options, startTime, effTimeout, proc, timeoutHandle,
                    graceTimer, stdout, stderr, pipeOut, pipeErr, writes, result, thrown,
                    uncaught, signals, spawnCount, timersCreated, settled, exitSeenAt,
                    killSentAtExit >>
    /\ UNCHANGED << callArg, callRet, calls, sandboxVars >>

Next ==
    \/ \E o \in Requests, outcome \in SpawnOutcomes : InvokeCrew(o, outcome)
    \/ \E chunk \in StdoutChunks : ProcWritesStdout(chunk)
    \/ \E chunk \in StderrChunks : ProcWritesStderr(chunk)
    \/ \E code \in ExitCodes : ProcExits(code)
    \/ StdoutData
    \/ StderrData
    \/ ExitEvent
    \/ \E obeys \in BOOLEAN : DeadlineFires(obeys)
    \/ GraceFires
    \/ Tick

Spec == Init /\ [][Next]_vars

(***************************************************************************)
(* Values before validation. A value carries its JavaScript type; a key    *)
(* that is missing from a record holds Absent.                             *)
(***************************************************************************)
Absent == [t |-> "absent"]
Undefined == [t |-> "undefined"]
Null == [t |-> "null"]
NaN == [t |-> "nan"]
Num(n) == [t |-> "number", num |-> n]
Str(s) == [t |-> "string", str |-> s]
Obj(m) == [t |-> "object", map |-> m]
EmptyArray == [t |-> "array"]

\* zod reads a missing key and an undefined value alike
IsMissing(v) == v.t \in {"absent", "undefined"}

\* z.string()
IsString(v) == v.t = "string"

\* z.number(): typeof number, and not NaN
IsNumber(v) == v.t = "number"

\* z.record(z.string(), z.string()): an object whose values are all strings
IsStringRecord(v) == v.t = "object" /\ \A k \in DOMAIN v.map : IsString(v.map[k])

(***************************************************************************)
(* The environment of the child.                                           *)
(***************************************************************************)
\* { ...a, ...b }
Spread(a, b) ==
    [k \in DOMAIN a \cup DOMAIN b |-> IF k \in DOMAIN b THEN b[k] ELSE a[k]]

\* the spread the other way round: the ambient values win
SpawnEnv_AmbientWins(ambient, additionalEnv) == Spread(additionalEnv, ambient)

\* env: { ...process.env, ...additionalEnv }
SpawnEnv(ambient, additionalEnv) == Spread(ambient, additionalEnv)

\* additionalEnv of CrewTool: the config's env overlaid by the call's env
AdditionalEnv(configEnv, optionsEnv) == Spread(configEnv, optionsEnv)

\* the env of a call's options; spreading an absent env adds nothing
EmptyEnv == [k \in {} |-> "0"]
OptionsEnv(o) == IF "env" \in DOMAIN o THEN o.env ELSE EmptyEnv

\* process.env of the process the tool runs in
ProcessEnv == [k \in {"HOME"} |-> "0"]

\* the env a call gives beside the tool's own
ExtraEnv == [k \in {"A", "B"} |-> "1"]

EnvKeys == {"A", "B", "HOME"}
EnvValues == {"0", "1", "2"}
EnvMaps == UNION { [ks -> EnvValues] : ks \in SUBSET EnvKeys }
AmbientEnvs == { e \in EnvMaps : "HOME" \in DOMAIN e /\ e["HOME"] = "0" }
GivenEnvs == { e \in EnvMaps : "HOME" \notin DOMAIN e }

\* the env option given to spawn; a behaviour makes one direct call
CallSpawnEnv ==
    /\ callArg = NoCall
    /\ \E ambient \in AmbientEnvs, configEnv \in GivenEnvs, optionsEnv \in GivenEnvs :
          /\ callArg' = [fn |-> "spawnEnv", ambient |-> ambient, configEnv |-> configEnv,
                         optionsEnv |-> optionsEnv]
          /\ callRet' = SpawnEnv(ambient, AdditionalEnv(configEnv, optionsEnv))
    /\ UNCHANGED << invocationVars, calls, sandboxVars >>

(***************************************************************************)
(* The schemas on values of any type. A failed parse carries one issue for *)
(* every check that failed, in the order of the schema's keys.             *)
(***************************************************************************)
Issue(field, code) == [field |-> field, code |-> code]

\* a check that lets zero through
Positive_NonNegative(n) == n >= 0

\* .positive()
Positive(n) == n > 0

\* a string schema that refuses the empty string
StringIssues_NonEmpty(field, v) ==
    IF IsString(v) /\ v.str # << >> THEN << >> ELSE << Issue(field, "invalid_type") >>

\* z.string()
StringIssues(field, v) ==
    IF IsString(v) THEN << >> ELSE << Issue(field, "invalid_type") >>

\* z.string().optional() and z.string().default(...): nothing to check when missing
OptionalStringIssues(field, v) ==
    IF IsMissing(v) THEN << >> ELSE StringIssues(field, v)

\* z.string().min(1).regex(/^[a-zA-Z0-9_-]+$/): both checks run on a string
IdentIssues(field, v) ==
    IF ~IsString(v) THEN << Issue(field, "invalid_type") >>
    ELSE (IF Len(v.str) < 1 THEN << Issue(field, "too_small") >> ELSE << >>)
         \o (IF ~IdentOk(v.str) THEN << Issue(field, "invalid_string") >> ELSE << >>)

\* a number schema that checks the type and not the sign
PositiveNumberIssues_AnyNumber(field, v) ==
    IF IsMissing(v) \/ IsNumber(v) THEN << >> ELSE << Issue(field, "invalid_type") >>

\* z.number().positive().optional() and z.number().positive().default(...)
PositiveNumberIssues(field, v) ==
    IF IsMissing(v) THEN << >>
    ELSE IF ~IsNumber(v) THEN << Issue(field, "invalid_type") >>
    ELSE IF ~Positive(v.num) THEN << Issue(field, "too_small") >>
    ELSE << >>

\* the keys of an env object in the order they are visited
EnvKeyOrder == << "A", "B" >>

RECURSIVE RecordValueIssues(_, _, _)
RecordValueIssues(field, m, keys) ==
    IF keys = << >> THEN << >>
    ELSE (IF Head(keys) \in DOMAIN m /\ ~IsString(m[Head(keys)])
          THEN << Issue(field, "invalid_type") >> ELSE << >>)
         \o RecordValueIssues(field, m, Tail(keys))

\* z.record(z.string(), z.string()).optional(): one issue for every value that
\* is not a string
StringRecordIssues(field, v) ==
    IF IsMissing(v) THEN << >>
    ELSE IF v.t # "object" THEN << Issue(field, "invalid_type") >>
    ELSE RecordValueIssues(field, v.map, EnvKeyOrder)

\* the parsed value of a record of strings
StringRecordValue(v) == [k \in DOMAIN v.map |-> v.map[k].str]

\* a key of the output that is there only when the input has it
OptionalKey(key, v, value) ==
    IF IsMissing(v) THEN << >> ELSE [k \in {key} |-> value]

RECURSIVE IssuesText(_)
IssuesText(issues) ==
    IF issues = << >> THEN << >>
    ELSE << Head(issues).code, Head(issues).field >> \o IssuesText(Tail(issues))

\* ZodError.message: the issues written out as JSON text
ZodMessage(issues) == << "[" >> \o IssuesText(issues) \o << "]" >>

\* the error of a failed parse: an Error named ZodError
ZodError(issues) ==
    [name |-> "ZodError", issues |-> issues, message |-> ZodMessage(issues)]

\* a default of 'python'
DefaultPythonExecutable_Python == << "p", "y", "t", "h", "o", "n" >>

\* .default('uv')
DefaultPythonExecutable == << "u", "v" >>

\* .default(300000)
DefaultTimeout == 300000

\* z.object({...}).strict(): a key the schema does not know is an issue
ConfigIssues_Strict(raw) ==
    IF raw.t # "object" THEN << Issue("", "invalid_type") >>
    ELSE OptionalStringIssues("pythonExecutable", raw.map.pythonExecutable)
         \o OptionalStringIssues("crewAgentsPath", raw.map.crewAgentsPath)
         \o PositiveNumberIssues("defaultTimeout", raw.map.defaultTimeout)
         \o StringRecordIssues("env", raw.map.env)
         \o (IF raw.map.extra.t # "absent" THEN << Issue("", "unrecognized_keys") >>
             ELSE << >>)

\* CrewToolConfigSchema: the issues of a value; z.object reads the keys of its
\* shape and no other
ConfigIssues(raw) ==
    IF raw.t # "object" THEN << Issue("", "invalid_type") >>
    ELSE OptionalStringIssues("pythonExecutable", raw.map.pythonExecutable)
         \o OptionalStringIssues("crewAgentsPath", raw.map.crewAgentsPath)
         \o PositiveNumberIssues("defaultTimeout", raw.map.defaultTimeout)
         \o StringRecordIssues("env", raw.map.env)

\* an output whose default timeout the schema's own check refuses
ConfigOutput_ZeroDefault(raw) ==
    Spread(Spread([pythonExecutable |->
                      IF IsMissing(raw.map.pythonExecutable) THEN DefaultPythonExecutable
                      ELSE raw.map.pythonExecutable.str,
                   defaultTimeout |->
                      IF IsMissing(raw.map.defaultTimeout) THEN 0
                      ELSE raw.map.defaultTimeout.num],
                  OptionalKey("crewAgentsPath", raw.map.crewAgentsPath,
                              raw.map.crewAgentsPath.str)),
           OptionalKey("env", raw.map.env, StringRecordValue(raw.map.env)))

\* CrewToolConfigSchema: the output of a value that parses; keys the schema does
\* not know are dropped
ConfigOutput(raw) ==
    Spread(Spread([pythonExecutable |->
                      IF IsMissing(raw.map.pythonExecutable) THEN DefaultPythonExecutable
                      ELSE raw.map.pythonExecutable.str,
                   defaultTimeout |->
                      IF IsMissing(raw.map.defaultTimeout) THEN DefaultTimeout
                      ELSE raw.map.defaultTimeout.num],
                  OptionalKey("crewAgentsPath", raw.map.crewAgentsPath,
                              raw.map.crewAgentsPath.str)),
           OptionalKey("env", raw.map.env, StringRecordValue(raw.map.env)))

\* validateConfig: CrewToolConfigSchema.parse(config)
ValidateConfig(raw) ==
    IF ConfigIssues(raw) = << >> THEN [ok |-> TRUE, value |-> ConfigOutput(raw)]
    ELSE [ok |-> FALSE, error |-> ZodError(ConfigIssues(raw))]

\* the issues of the first failing field only
InvokeOptionsIssues_FirstFieldOnly(raw) ==
    IF raw.t # "object" THEN << Issue("", "invalid_type") >>
    ELSE IF IdentIssues("package", raw.map.package) # << >>
         THEN IdentIssues("package", raw.map.package)
    ELSE IF IdentIssues("crew", raw.map.crew) # << >>
         THEN IdentIssues("crew", raw.map.crew)
    ELSE IF StringIssues("input", raw.map.input) # << >>
         THEN StringIssues("input", raw.map.input)
    ELSE IF PositiveNumberIssues("timeout", raw.map.timeout) # << >>
         THEN PositiveNumberIssues("timeout", raw.map.timeout)
    ELSE StringRecordIssues("env", raw.map.env)

\* InvokeCrewOptionsSchema: the issues of a value
InvokeOptionsIssues(raw) ==
    IF raw.t # "object" THEN << Issue("", "invalid_type") >>
    ELSE IdentIssues("package", raw.map.package)
         \o IdentIssues("crew", raw.map.crew)
         \o StringIssues("input", raw.map.input)
         \o PositiveNumberIssues("timeout", raw.map.timeout)
         \o StringRecordIssues("env", raw.map.env)

\* InvokeCrewOptionsSchema: the output of a value that parses
InvokeOptionsOutput(raw) ==
    Spread(Spread([package |-> raw.map.package.str,
                   crew |-> raw.map.crew.str,
                   input |-> raw.map.input.str],
                  OptionalKey("timeout", raw.map.timeout, raw.map.timeout.num)),
           OptionalKey("env", raw.map.env, StringRecordValue(raw.map.env)))

\* validateInvokeOptions: InvokeCrewOptionsSchema.parse(options)
ValidateInvokeOptions(raw) ==
    IF InvokeOptionsIssues(raw) = << >>
    THEN [ok |-> TRUE, value |-> InvokeOptionsOutput(raw)]
    ELSE [ok |-> FALSE, error |-> ZodError(InvokeOptionsIssues(raw))]

(***************************************************************************)
(* The inputs of the direct calls.                                         *)
(***************************************************************************)
NotObjects == {Undefined, Null, Str(<< "x" >>), Num(1), EmptyArray}

RawEnvs ==
    { Absent, Str(<< "A" >>), Obj(<< >>),
      Obj([k \in {"A"} |-> Str(<< "1" >>)]),
      Obj([k \in {"A"} |-> Num(1)]),
      Obj([k \in {"A", "B"} |-> IF k = "A" THEN Str(<< "1" >>) ELSE Num(2)]),
      Obj([k \in {"A", "B"} |-> Num(2)]) }

RawConfigs ==
    NotObjects \cup
    { Obj([pythonExecutable |-> pe, crewAgentsPath |-> cp, defaultTimeout |-> dt,
           env |-> e, extra |-> x])
      : pe \in {Absent, Undefined, Null, Num(1), Str(<< >>), Str(<< "u", "v" >>),
                Str(<< "p", "y" >>)},
        cp \in {Absent, Num(1), Str(<< "." >>)},
        dt \in {Absent, Undefined, Null, NaN, Str(<< "5" >>), Num(-1), Num(0), Num(1),
                Num(5000), Num(300000)},
        e \in RawEnvs,
        x \in {Absent, Num(1)} }

RawInvokeOptions ==
    NotObjects \cup
    { Obj([package |-> p, crew |-> c, input |-> i, timeout |-> t, env |-> e])
      : p \in {Absent, Num(1), Str(<< >>), Str(GoodPackage), Str(<< "b", " ", "n" >>)},
        c \in {Absent, Str(<< >>), Str(GoodCrew), Str(<< "a", "/" >>)},
        i \in {Absent, Null, Num(1), Str(<< >>), Str(Payload)},
        t \in {Absent, Undefined, NaN, Str(<< "5" >>), Num(-100), Num(0), Num(1),
               Num(3000)},
        e \in RawEnvs }

(***************************************************************************)
(* listCrews: the list command of the CLI and the parsing of its output.   *)
(* A line of the output is a sequence of fields.                           *)
(***************************************************************************)
\* a CrewInfo without its description
CrewInfoOf_NoDescription(line) == [package |-> line[1], name |-> line[2]]

\* interface CrewInfo { package: string; name: string; description: string }
CrewInfoOf(line) == [package |-> line[1], name |-> line[2], description |-> line[3]]

\* a line that names a package, a crew and a description
ParsableLine(line) == Len(line) = 3 /\ line[1] # "" /\ line[2] # ""

RECURSIVE ParseCrewLines(_)
ParseCrewLines(lines) ==
    IF lines = << >> THEN << >>
    ELSE << CrewInfoOf(Head(lines)) >> \o ParseCrewLines(Tail(lines))

\* listCrews(): the crews the list command printed, or no crew at all when the
\* command failed or a line of its output cannot be parsed; never an error
ListCrews(outcome, lines) ==
    IF outcome = "ok" /\ \A k \in 1..Len(lines) : ParsableLine(lines[k])
    THEN [ok |-> TRUE, value |-> ParseCrewLines(lines)]
    ELSE [ok |-> TRUE, value |-> << >>]

\* how the list command ends: exit 0, another exit code, or no child at all
ListOutcomes == {"ok", "nonzero", "spawn_failed"}

OutputLines ==
    { << "pkg", "builder", "Builds games" >>, << "pkg", "qa", "" >>,
      << "Traceback" >>, << "", "qa", "x" >>, << "pkg", "qa", "x", "y" >> }

MaxLines == 2

ListOutputs == UNION { [1..n -> OutputLines] : n \in 0..MaxLines }

CallListCrews ==
    /\ callArg = NoCall
    /\ \E outcome \in ListOutcomes, lines \in ListOutputs :
          /\ callArg' = [fn |-> "listCrews", outcome |-> outcome, lines |-> lines]
          /\ callRet' = ListCrews(outcome, lines)
    /\ UNCHANGED << invocationVars, calls, sandboxVars >>

CallValidateConfig ==
    /\ callArg = NoCall
    /\ \E raw \in RawConfigs :
          /\ callArg' = [fn |-> "validateConfig", raw |-> raw]
          /\ callRet' = ValidateConfig(raw)
    /\ UNCHANGED << invocationVars, calls, sandboxVars >>

CallValidateInvokeOptions ==
    /\ callArg = NoCall
    /\ \E raw \in RawInvokeOptions :
          /\ callArg' = [fn |-> "validateInvokeOptions", raw |-> raw]
          /\ callRet' = ValidateInvokeOptions(raw)
    /\ UNCHANGED << invocationVars, calls, sandboxVars >>

(***************************************************************************)
(* parseArgs of the sandbox executor. An argument is a string: a sequence  *)
(* of tokens, the dashes and the digits being tokens of their own.         *)
(***************************************************************************)
Digits == {"0", "1", "2", "3", "5"}

DigitValue(d) ==
    CASE d = "0" -> 0 [] d = "1" -> 1 [] d = "2" -> 2 [] d = "3" -> 3 [] d = "5" -> 5

RECURSIVE DigitPrefix(_)
DigitPrefix(s) ==
    IF s = << >> \/ Head(s) \notin Digits THEN << >>
    ELSE << Head(s) >> \o DigitPrefix(Tail(s))

RECURSIVE DecimalValue(_)
DecimalValue(ds) ==
    IF ds = << >> THEN 0
    ELSE DecimalValue(SubSeq(ds, 1, Len(ds) - 1)) * 10 + DigitValue(ds[Len(ds)])

\* parseInt(s, 10): leading whitespace is skipped, a sign is read, then the
\* longest run of digits; what follows is ignored; NaN when there is no digit
ParseInt(s) ==
    LET t == TrimStart(s)
        signed == t # << >> /\ Head(t) \in {"-", "+"}
        ds == DigitPrefix(IF signed THEN Tail(t) ELSE t)
    IN IF ds = << >> THEN NaN
       ELSE IF signed /\ Head(t) = "-" THEN Num(0 - DecimalValue(ds))
       ELSE Num(DecimalValue(ds))

\* isNaN(v)
IsNaN(v) == v.t = "nan"

\* v * k: NaN stays NaN
Times(v, k) == IF IsNaN(v) THEN NaN ELSE Num(v.num * k)

\* a string that is neither undefined nor empty
Truthy(v) == v.t = "string" /\ v.str # << >>

\* const DEFAULT_TIMEOUT_SECONDS = '300'
DEFAULT_TIMEOUT_SECONDS == << "3", "0", "0" >>

\* const TIMEOUT = parseInt(process.env.AGENTIC_SANDBOX_TIMEOUT || DEFAULT_TIMEOUT_SECONDS, 10) * 1000
TIMEOUT(envTimeout) ==
    Times(ParseInt(IF Truthy(envTimeout) THEN envTimeout.str ELSE DEFAULT_TIMEOUT_SECONDS),
          1000)

\* const DEFAULT_RUNTIME = 'claude'; AGENTIC_SANDBOX_RUNTIME is not set
DEFAULT_RUNTIME == << "claude" >>

\* '--name' and '-n'
Long(name) == << "-", "-", name >>
Short(letter) == << "-", letter >>

\* arg.startsWith('-')
StartsWithDash(arg) == arg # << >> /\ Head(arg) = "-"

\* throw new Error(message)
Threw(message) == [ok |-> FALSE, error |-> [name |-> "Error", message |-> message]]

\* the options before the loop
InitialOptions(timeout) ==
    [runtime |-> DEFAULT_RUNTIME, prompt |-> << >>, model |-> Undefined,
     script |-> Undefined, timeout |-> timeout]

\* for (let i = 0; i < args.length; i++) switch (args[i]): the loop from index i
RECURSIVE ParseArgsFrom(_, _, _)
ParseArgsFrom(args, i, opts) ==
    IF i > Len(args) THEN [ok |-> TRUE, value |-> opts]
    ELSE LET arg == args[i]
             last == i + 1 > Len(args)
         IN IF arg \in {Long("runtime"), Short("r")}
            THEN IF last THEN Threw(<< "--runtime requires a value" >>)
                 ELSE ParseArgsFrom(args, i + 2, [opts EXCEPT !.runtime = args[i + 1]])
            ELSE IF arg \in {Long("prompt"), Short("p")}
            THEN IF last THEN Threw(<< "--prompt requires a value" >>)
                 ELSE ParseArgsFrom(args, i + 2, [opts EXCEPT !.prompt = args[i + 1]])
            ELSE IF arg \in {Long("model"), Short("m")}
            THEN IF last THEN Threw(<< "--model requires a value" >>)
                 ELSE ParseArgsFrom(args, i + 2, [opts EXCEPT !.model = Str(args[i + 1])])
            ELSE IF arg = Long("script")
            THEN IF last THEN Threw(<< "--script requires a value" >>)
                 ELSE ParseArgsFrom(args, i + 2, [opts EXCEPT !.script = Str(args[i + 1])])
            ELSE IF arg \in {Long("timeout"), Short("t")}
            THEN IF last THEN Threw(<< "--timeout requires a value" >>)
                 ELSE LET timeoutValue == ParseInt(args[i + 1])
                      IN IF IsNaN(timeoutValue) \/ timeoutValue.num <= 0
                         THEN Threw(<< "--timeout must be a positive number" >>)
                         ELSE ParseArgsFrom(args, i + 2,
                                            [opts EXCEPT !.timeout = Times(timeoutValue, 1000)])
            ELSE IF ~StartsWithDash(arg) /\ opts.prompt = << >>
            THEN ParseArgsFrom(args, i + 1, [opts EXCEPT !.prompt = arg])
            ELSE ParseArgsFrom(args, i + 1, opts)

\* parseArgs(args), with the value of AGENTIC_SANDBOX_TIMEOUT the module was loaded under
ParseArgs(args, envTimeout) == ParseArgsFrom(args, 1, InitialOptions(TIMEOUT(envTimeout)))

\* the arguments of the direct calls of parseArgs
ArgTokens ==
    { Long("timeout"), Short("t"), Long("prompt"), << "task" >>, << "5" >>, << "0" >>,
      << "-", "1" >>, << "5", "a" >>, << "1", ".", "5" >> }

MaxArgs == 3

ArgLists == UNION { [1..n -> ArgTokens] : n \in 0..MaxArgs }

\* AGENTIC_SANDBOX_TIMEOUT: not set, empty, or a text
EnvTimeouts ==
    { Absent, Str(<< >>), Str(<< "2" >>), Str(<< "0" >>), Str(<< "-", "1" >>),
      Str(<< "a" >>) }

CallParseArgs ==
    /\ callArg = NoCall
    /\ \E args \in ArgLists, envTimeout \in EnvTimeouts :
          /\ callArg' = [fn |-> "parseArgs", args |-> args, envTimeout |-> envTimeout]
          /\ callRet' = ParseArgs(args, envTimeout)
    /\ UNCHANGED << invocationVars, calls, sandboxVars >>

\* a record of strings given as a value of any type
EnvAsUnknown(e) == Obj([k \in DOMAIN e |-> Str(e[k])])

\* the CrewToolConfig a call returned, given as the argument of a call
ConfigAsUnknown(c) ==
    Obj([pythonExecutable |-> Str(c.pythonExecutable),
         crewAgentsPath |-> IF "crewAgentsPath" \in DOMAIN c THEN Str(c.crewAgentsPath)
                            ELSE Absent,
         defaultTimeout |-> Num(c.defaultTimeout),
         env |-> IF "env" \in DOMAIN c THEN EnvAsUnknown(c.env) ELSE Absent,
         extra |-> Absent])

\* the InvokeCrewOptions a call returned, given as the argument of a call
InvokeOptionsAsUnknown(o) ==
    Obj([package |-> Str(o.package), crew |-> Str(o.crew), input |-> Str(o.input),
         timeout |-> IF "timeout" \in DOMAIN o THEN Num(o.timeout) ELSE Absent,
         env |-> IF "env" \in DOMAIN o THEN EnvAsUnknown(o.env) ELSE Absent])

\* the validator is applied to what it returned: validateConfig(validateConfig(x)),
\* validateInvokeOptions(validateInvokeOptions(x))
CallValidateAgain ==
    /\ callArg # NoCall
    /\ callArg.fn \in {"validateConfig", "validateInvokeOptions"}
    /\ "first" \notin DOMAIN callArg
    /\ callRet.ok
    /\ IF callArg.fn = "validateConfig"
       THEN /\ callArg' = [fn |-> callArg.fn, raw |-> ConfigAsUnknown(callRet.value),
                           first |-> callRet]
            /\ callRet' = ValidateConfig(ConfigAsUnknown(callRet.value))
       ELSE /\ callArg' = [fn |-> callArg.fn, raw |-> InvokeOptionsAsUnknown(callRet.value),
                           first |-> callRet]
            /\ callRet' = ValidateInvokeOptions(InvokeOptionsAsUnknown(callRet.value))
    /\ UNCHANGED << invocationVars, calls, sandboxVars >>

NextValidators ==
    \/ CallSpawnEnv
    \/ CallValidateConfig
    \/ CallValidateInvokeOptions
    \/ CallListCrews
    \/ CallValidateAgain
    \/ CallParseArgs

SpecValidators == Init /\ [][NextValidators]_vars

(***************************************************************************)
(* Concurrent invocations on one CrewTool. Every call of invokeCrew has    *)
(* its own proc, timeoutHandle, stdout and stderr; the calls share the     *)
(* tool's config and the clock. A chunk names the child that wrote it.     *)
(***************************************************************************)
\* a call with no option beside package, crew and input, and a call that
\* overrides the timeout and gives an env of its own
ConcurrentRequests ==
    { [package |-> GoodPackage, crew |-> GoodCrew, input |-> Payload],
      [package |-> GoodPackage, crew |-> GoodCrew, input |-> Payload, timeout |-> 1000,
       env |-> ExtraEnv] }

OutChunk(i) == IF i = 1 THEN "out1" ELSE "out2"
ErrChunk(i) == IF i = 1 THEN "err1" ELSE "err2"

\* locals kept on the instance: every callback works on those of the first call
Closure_OnInstance(i) == 1

\* const proc, const timeoutHandle, let stdout, let stderr are declared in the
\* body of invokeCrew: the callbacks of call i close over the locals of call i
Closure(i) == i

\* the calls are numbered in the order they are made
ConcurrentInvokeCrew(i, o, outcome) ==
    /\ calls[i].pc = "idle"
    /\ \A j \in CallIds : j < i => calls[j].pc # "idle"
    /\ calls' = [calls EXCEPT ![i] =
          IF outcome = "throws"
          THEN [@ EXCEPT !.pc = "rejected", !.options = o, !.startTime = now,
                         !.thrown = CatchBlock([name |-> "Error", syscall |-> "spawn"])]
          ELSE [@ EXCEPT !.pc = "awaiting", !.options = o, !.startTime = now,
                         !.spawnEnv = SpawnEnv(ProcessEnv,
                                               AdditionalEnv(config.env, OptionsEnv(o))),
                         !.timeoutHandle = SetTimeout(now, EffectiveTimeout(o, config)),
                         !.proc = IF outcome = "ok"
                                  THEN [os |-> "running", handle |-> TRUE,
                                        status |-> [none |-> TRUE]]
                                  ELSE NoProc]]
    /\ config' = ConfigAfterCall(config, o)
    /\ UNCHANGED << now, callVars, callArg, callRet, sandboxVars >>

\* child i writes a chunk to stdout and the 'data' listener of its call appends it
ConcurrentStdoutData(i) ==
    /\ calls[i].proc.os = "running"
    /\ calls[i].writes < MaxChunks
    /\ calls' = [calls EXCEPT ![i].writes = @ + 1,
                              ![Closure(i)].stdout = Collect(@, OutChunk(i))]
    /\ UNCHANGED << config, now, callVars, callArg, callRet, sandboxVars >>

\* child i writes a chunk to stderr and the 'data' listener of its call appends it
ConcurrentStderrData(i) ==
    /\ calls[i].proc.os = "running"
    /\ calls[i].writes < MaxChunks
    /\ calls' = [calls EXCEPT ![i].writes = @ + 1,
                              ![Closure(i)].stderr = Collect(@, ErrChunk(i))]
    /\ UNCHANGED << config, now, callVars, callArg, callRet, sandboxVars >>

ConcurrentProcExits(i, code) ==
    /\ calls[i].proc.os = "running"
    /\ calls' = [calls EXCEPT ![i].proc.os = "zombie", ![i].proc.status = [code |-> code]]
    /\ UNCHANGED << config, now, callVars, callArg, callRet, sandboxVars >>

\* the 'exit' event of child i and the rest of its call
ConcurrentExitEvent(i) ==
    /\ calls[i].proc.os = "zombie"
    /\ calls[i].proc.handle
    /\ calls[i].pc = "awaiting"
    /\ calls' = [calls EXCEPT
          ![i].proc = [@ EXCEPT !.os = "reaped", !.handle = FALSE],
          ![i].pc = "returned",
          ![i].result = BuildResult(ExitCodeOf(calls[i].proc.status),
                                    calls[Closure(i)].stdout, calls[Closure(i)].stderr,
                                    Duration(now, calls[i].startTime)),
          ![Closure(i)].timeoutHandle = ClearTimeout(@)]
    /\ UNCHANGED << config, now, callVars, callArg, callRet, sandboxVars >>

\* the deadline callback of call i
ConcurrentDeadlineFires(i, obeys) ==
    /\ calls[i].timeoutHandle.state = "pending"
    /\ now >= calls[i].timeoutHandle.due
    /\ calls' = [calls EXCEPT
          ![i].timeoutHandle = Fired(@),
          ![i].graceTimer = SetTimeout(now, KILL_GRACE_MS),
          ![Closure(i)].signalledBy = IF KillDelivers(calls[Closure(i)].proc)
                                      THEN @ \cup {i} ELSE @,
          ![Closure(i)].proc = Killed(@, DeadlineSignal, obeys)]
    /\ UNCHANGED << config, now, callVars, callArg, callRet, sandboxVars >>

\* the callback of the second timer of call i
ConcurrentGraceFires(i) ==
    /\ calls[i].graceTimer.state = "pending"
    /\ now >= calls[i].graceTimer.due
    /\ calls' = [calls EXCEPT
          ![i].graceTimer = Fired(@),
          ![Closure(i)].signalledBy = IF KillDelivers(calls[Closure(i)].proc)
                                      THEN @ \cup {i} ELSE @,
          ![Closure(i)].proc = Killed(@, GraceSignal, TRUE)]
    /\ UNCHANGED << config, now, callVars, callArg, callRet, sandboxVars >>

ConcurrentPendingDues ==
    { calls[i].timeoutHandle.due : i \in { j \in CallIds : calls[j].timeoutHandle.state = "pending" } }
    \cup { calls[i].graceTimer.due : i \in { j \in CallIds : calls[j].graceTimer.state = "pending" } }

ConcurrentNextDue ==
    IF ConcurrentPendingDues = {} THEN MaxTime
    ELSE CHOOSE d \in ConcurrentPendingDues : \A e \in ConcurrentPendingDues : d <= e

ConcurrentTick ==
    /\ now < MaxTime
    /\ ConcurrentPendingDues # {} \/ \E i \in CallIds : calls[i].pc = "awaiting"
    /\ \A i \in CallIds : calls[i].proc.os # "zombie"
    /\ \A d \in ConcurrentPendingDues : now < d
    /\ now' = Min(Min(now + TickMs, ConcurrentNextDue), MaxTime)
    /\ UNCHANGED << config, callVars, callArg, callRet, calls, sandboxVars >>

NextConcurrent ==
    \/ \E i \in CallIds, o \in ConcurrentRequests, outcome \in SpawnOutcomes :
          ConcurrentInvokeCrew(i, o, outcome)
    \/ \E i \in CallIds : ConcurrentStdoutData(i)
    \/ \E i \in CallIds : ConcurrentStderrData(i)
    \/ \E i \in CallIds, code \in ExitCodes : ConcurrentProcExits(i, code)
    \/ \E i \in CallIds : ConcurrentExitEvent(i)
    \/ \E i \in CallIds, obeys \in BOOLEAN : ConcurrentDeadlineFires(i, obeys)
    \/ \E i \in CallIds : ConcurrentGraceFires(i)
    \/ ConcurrentTick

\* the calls are made on a tool constructed at instant 0 with the shorter default
InitConcurrent ==
    /\ Init
    /\ now = 0
    /\ \A c \in Configs : config.defaultTimeout <= c.defaultTimeout

SpecConcurrent == InitConcurrent /\ [][NextConcurrent]_vars

(***************************************************************************)
(* The sandbox executor: main, the race of the runtime with the timeout    *)
(* timer, and the custom runtime. What runs after an await resumes in the  *)
(* microtasks of the event that settled the promise, so an event and the   *)
(* continuation of main it releases are one step.                          *)
(***************************************************************************)
\* const runtimes = { claude: ..., cursor: ..., custom: ... }
RuntimeNames == { << "claude" >>, << "cursor" >>, << "custom" >> }

\* options.runtime || 'claude'
RuntimeOf(opts) == IF opts.runtime = << >> THEN << "claude" >> ELSE opts.runtime

\* setTimeout(callback, delay): a delay that is NaN or less than 1 is taken as 1
TimerDelay(v) == IF IsNaN(v) \/ v.num < 1 THEN 1 ELSE v.num

\* a check that lets the dollar through
ShellMetachars_NoDollar == {"|", "&", ";", "backquote"}

\* script.includes('|') || script.includes('&') || script.includes(';') ||
\* script.includes('`') || script.includes('$'); the token of the character `
\* is its name
ShellMetachars == {"|", "&", ";", "backquote", "$"}

HasShellMetachar(script) == \E c \in ShellMetachars : Includes(script, c)

\* const script = options.script || process.env.AGENTIC_CUSTOM_SCRIPT
ScriptOf(opts, env) == IF Truthy(opts.script) THEN opts.script ELSE env.script

\* the two throws of customRuntime before spawn: the promise it returned is
\* rejected; Pending when it goes on to spawn
CustomRuntimeRefusal(script) ==
    IF ~Truthy(script)
    THEN Rejected(<< "Custom runtime requires --script or AGENTIC_CUSTOM_SCRIPT" >>)
    ELSE IF HasShellMetachar(script.str)
    THEN Rejected(<< "Invalid script path: shell metacharacters not allowed" >>)
    ELSE Pending

\* proc.on('close', (code) => code === 0 ? resolve({ success: true }) : reject(...))
OnClose(code) ==
    IF code = Num(0) THEN Resolved([success |-> TRUE])
    ELSE Rejected(<< "Script exited with code" >>)

\* proc.on('error', (err) => reject(...)), and a spawn that throws in the executor
OnError == Rejected(<< "Failed to execute script" >>)

\* a timeout promise that resolves
TimeoutSettlement_Resolves == Resolved([success |-> TRUE])

\* setTimeout(() => reject(new Error('Execution timeout')), options.timeout)
TimeoutSettlement == Rejected(<< "Execution timeout" >>)

\* how claudeRuntime and cursorRuntime end: { success: true }, { success: false,
\* error }, or a throw (a key of the environment is missing)
RuntimeSettlements ==
    { Resolved([success |-> TRUE]), Resolved([success |-> FALSE]),
      Rejected(<< "environment variable is required" >>) }

\* main after await Promise.race([...]): on a value it calls extractOutput, on
\* a rejection the catch block prints the error and calls process.exit(1)
AfterRace(settlement) ==
    IF settlement.kind = "resolved"
    THEN [mainPc |-> "extracting", processExit |-> Alive, says |-> {}, extracts |-> 1]
    ELSE [mainPc |-> "exited", processExit |-> Exited(1), says |-> {"error"}, extracts |-> 0]

\* the race is settled and main goes on
SettleRace(settlement, by, said) ==
    /\ race' = [settled |-> settlement, by |-> by, at |-> now]
    /\ mainPc' = AfterRace(settlement).mainPc
    /\ processExit' = AfterRace(settlement).processExit
    /\ printed' = printed \cup said \cup AfterRace(settlement).says
    /\ extractCalls' = extractCalls + AfterRace(settlement).extracts

\* how the child of customRuntime ends: code 0, another code, or a signal (code null)
CloseCodes == {Num(0), Num(2), Null}

\* the command lines of a run
SandboxCommandLines ==
    { << >>,
      << << "task" >> >>,
      << Long("runtime"), << "cursor" >>, Short("t"), << "1" >>, << "task" >> >>,
      << Long("runtime"), << "bogus" >>, << "task" >> >>,
      << Long("timeout"), << "0" >>, << "task" >> >>,
      << Long("model"), << "opus" >>, Short("p"), << "task" >> >>,
      << Short("r"), << "custom" >>, << "task" >> >>,
      << Short("r"), << "custom" >>, Long("script"), << "run.sh" >>, Long("timeout"),
         << "2" >>, << "task" >> >> }
    \cup { << Short("r"), << "custom" >>, Long("script"), << "a", c, "b" >>, << "task" >> >>
           : c \in {"|", "&", ";", "backquote", "$"} }

\* AGENTIC_SANDBOX_TIMEOUT and AGENTIC_CUSTOM_SCRIPT of a run
SandboxEnvs ==
    [timeout : {Absent, Str(<< "2" >>), Str(<< "a" >>)},
     script : {Absent, Str(<< "run.sh" >>), Str(<< "x", "&", "y" >>)}]

\* main() up to await Promise.race([...]), with the runtime's synchronous part
Main(args, env, outcome) ==
    /\ mainPc = "idle"
    /\ argv' = args
    /\ sandboxEnv' = env
    /\ LET parsed == ParseArgs(args, env.timeout)
       IN IF ~parsed.ok
          THEN \* parseArgs throws: main rejects and main().catch exits
               /\ printed' = {"fatal"}
               /\ processExit' = Exited(1)
               /\ mainPc' = "exited"
               /\ UNCHANGED << mainOptions, raceTimer, runtimePromise, race, customProc,
                               extractCalls >>
          ELSE IF parsed.value.prompt = << >>
          THEN /\ mainOptions' = parsed.value
               /\ printed' = {"no prompt"}
               /\ processExit' = Exited(1)
               /\ mainPc' = "exited"
               /\ UNCHANGED << raceTimer, runtimePromise, race, customProc, extractCalls >>
          ELSE IF RuntimeOf(parsed.value) \notin RuntimeNames
          THEN /\ mainOptions' = parsed.value
               /\ printed' = {"unknown runtime"}
               /\ processExit' = Exited(1)
               /\ mainPc' = "exited"
               /\ UNCHANGED << raceTimer, runtimePromise, race, customProc, extractCalls >>
          ELSE /\ mainOptions' = parsed.value
               /\ raceTimer' = SetTimeout(now, TimerDelay(parsed.value.timeout))
               /\ IF RuntimeOf(parsed.value) # << "custom" >>
                  THEN \* claudeRuntime, cursorRuntime: the promise is pending
                       /\ runtimePromise' = Pending
                       /\ mainPc' = "racing"
                       /\ printed' = {"banner"}
                       /\ UNCHANGED << race, customProc, extractCalls, processExit >>
                  ELSE IF CustomRuntimeRefusal(ScriptOf(parsed.value, env)) # Pending
                  THEN \* customRuntime throws before spawn
                       /\ runtimePromise' = CustomRuntimeRefusal(ScriptOf(parsed.value, env))
                       /\ customProc' = NoCustomProc
                       /\ SettleRace(CustomRuntimeRefusal(ScriptOf(parsed.value, env)),
                                     "runtime", {"banner"})
                  ELSE IF outcome = "throws"
                  THEN \* spawn throws in the executor: the promise is rejected
                       /\ runtimePromise' = OnError
                       /\ customProc' = [state |-> "spawn_threw"]
                       /\ SettleRace(OnError, "runtime", {"banner"})
                  ELSE /\ runtimePromise' = Pending
                       /\ customProc' = [state |-> IF outcome = "ok" THEN "running"
                                                   ELSE "spawn_failed"]
                       /\ mainPc' = "racing"
                       /\ printed' = {"banner"}
                       /\ UNCHANGED << race, extractCalls, processExit >>
    /\ UNCHANGED << config, now, callVars, callArg, callRet, calls >>

\* claudeRuntime or cursorRuntime ends
RuntimeSettles(settlement) ==
    /\ processExit = Alive
    /\ mainPc = "racing"
    /\ RuntimeOf(mainOptions) # << "custom" >>
    /\ runtimePromise = Pending
    /\ runtimePromise' = settlement
    /\ SettleRace(settlement, "runtime", {})
    /\ UNCHANGED << argv, sandboxEnv, mainOptions, raceTimer, customProc >>
    /\ UNCHANGED << config, now, callVars, callArg, callRet, calls >>

\* the 'close' event of the child of customRuntime
CustomCloseEvent(code) ==
    /\ processExit = Alive
    /\ customProc.state = "running"
    /\ customProc' = [state |-> "closed", code |-> code]
    /\ runtimePromise' = OnClose(code)
    /\ SettleRace(OnClose(code), "runtime", {})
    /\ UNCHANGED << argv, sandboxEnv, mainOptions, raceTimer >>
    /\ UNCHANGED << config, now, callVars, callArg, callRet, calls >>

\* the 'error' event of a spawn that failed, on the next tick
CustomErrorEvent ==
    /\ processExit = Alive
    /\ customProc.state = "spawn_failed"
    /\ customProc' = [state |-> "errored"]
    /\ runtimePromise' = OnError
    /\ SettleRace(OnError, "runtime", {})
    /\ UNCHANGED << argv, sandboxEnv, mainOptions, raceTimer >>
    /\ UNCHANGED << config, now, callVars, callArg, callRet, calls >>

\* the callback of the timer of timeoutPromise; the code never clears the timer,
\* so it also runs when the race is settled already, and then changes nothing
TimeoutFires ==
    /\ processExit = Alive
    /\ raceTimer.state = "pending"
    /\ now = raceTimer.due
    /\ raceTimer' = Fired(raceTimer)
    /\ IF mainPc = "racing"
       THEN SettleRace(TimeoutSettlement, "timeout", {})
       ELSE UNCHANGED << race, mainPc, processExit, printed, extractCalls >>
    /\ UNCHANGED << argv, sandboxEnv, mainOptions, runtimePromise, customProc >>
    /\ UNCHANGED << config, now, callVars, callArg, callRet, calls >>

\* extractOutput() is done (it catches every error) and main goes on to its end
ExtractOutputDone ==
    /\ processExit = Alive
    /\ mainPc = "extracting"
    /\ IF ~race.settled.value.success
       THEN /\ printed' = printed \cup {"failed"}
            /\ processExit' = Exited(1)
            /\ mainPc' = "exited"
       ELSE /\ printed' = printed \cup {"complete"}
            /\ mainPc' = "returned"
            /\ UNCHANGED processExit
    /\ UNCHANGED << argv, sandboxEnv, mainOptions, raceTimer, runtimePromise, race,
                    customProc, extractCalls >>
    /\ UNCHANGED << config, now, callVars, callArg, callRet, calls >>

\* main has returned and nothing is left to wait for: the process ends, code 0
ProcessEnds ==
    /\ processExit = Alive
    /\ mainPc = "returned"
    /\ raceTimer.state # "pending"
    /\ processExit' = Exited(0)
    /\ UNCHANGED << argv, sandboxEnv, mainPc, mainOptions, raceTimer, runtimePromise, race,
                    customProc, printed, extractCalls >>
    /\ UNCHANGED << config, now, callVars, callArg, callRet, calls >>

\* time passes, up to the timer; the 'error' event of a failed spawn and the
\* end of a process with nothing left to wait for come at once
SandboxTick ==
    /\ processExit = Alive
    /\ mainPc \in {"racing", "extracting", "returned"}
    /\ now < MaxTime
    /\ customProc.state # "spawn_failed"
    /\ raceTimer.state = "pending" => now < raceTimer.due
    /\ ~(mainPc = "returned" /\ raceTimer.state # "pending")
    /\ now' = Min(Min(now + TickMs,
                      IF raceTimer.state = "pending" THEN raceTimer.due ELSE MaxTime),
                  MaxTime)
    /\ UNCHANGED << config, callVars, callArg, callRet, calls, sandboxVars >>

NextSandbox ==
    \/ \E args \in SandboxCommandLines, env \in SandboxEnvs, outcome \in SpawnOutcomes :
          Main(args, env, outcome)
    \/ \E settlement \in RuntimeSettlements : RuntimeSettles(settlement)
    \/ \E code \in CloseCodes : CustomCloseEvent(code)
    \/ CustomErrorEvent
    \/ TimeoutFires
    \/ ExtractOutputDone
    \/ ProcessEnds
    \/ SandboxTick

\* the executor is started at instant 0
InitSandbox ==
    /\ Init
    /\ now = 0
    /\ \A c \in Configs : config.defaultTimeout <= c.defaultTimeout

SpecSandbox == InitSandbox /\ [][NextSandbox]_vars

(***************************************************************************)
(* Properties of one invocation.                                           *)
(***************************************************************************)
ValidRequest(o) ==
    /\ o # NoOptions
    /\ o \in ValidRequests

Delivered(sig) == \E i \in 1..Len(signals) : signals[i].sig = sig

HasTimeoutMarker(r) == "error" \in DOMAIN r /\ Includes(r.error, "timed out")

\* C1: a call with valid options settles once, with a CrewResult and not with a
\* thrown error, and it is never left pending with no child whose exit could
\* resolve it.
C1_ExactlyOneResult ==
    ValidRequest(options) =>
        /\ settled <= 1
        /\ pc # "rejected"
        /\ thrown = NoError
        /\ pc = "returned" => (settled = 1 /\ result # NoResult)
        /\ pc = "awaiting" => proc.os \in {"running", "zombie"}

C3_NoRaiseAfterSpawn ==
    spawnCount > 0 => (pc # "rejected" /\ thrown = NoError /\ ~uncaught)

\* the identifier pattern of the request validator, character by character
C4_FailsPattern(s) ==
    \/ s = << >>
    \/ \E i \in 1..Len(s) :
          s[i] \notin {"a", "b", "g", "k", "n", "p", "Z", "9", "_", "-"}

C5_TimeoutResult ==
    (pc = "returned" /\ \E i \in 1..Len(signals) :
                            signals[i].sig = "SIGTERM" /\ signals[i].running) =>
        (~result.success /\ HasTimeoutMarker(result))

\* C6: once the call has settled no timer of the invocation is pending, and no
\* signal is delivered after that.
C6_TimersCancelled ==
    pc \in {"returned", "rejected"} =>
        /\ timeoutHandle.state # "pending"
        /\ graceTimer.state # "pending"
        /\ \A i \in 1..Len(signals) : ~signals[i].afterReturn

\* C7: SIGKILL is delivered only after SIGTERM, not before 5000 ms have passed
\* since SIGTERM, and only to a child whose exit has not been seen.
C7_GracefulThenForced ==
    \A i \in 1..Len(signals) :
        signals[i].sig = "SIGKILL" =>
            /\ i > 1
            /\ signals[1].sig = "SIGTERM"
            /\ signals[i].at >= signals[1].at + 5000
            /\ ~signals[i].exitSeen
            /\ ~signals[i].afterReturn

\* SIGKILL was delivered to a child that had outlived SIGTERM
C7_Witness ==
    \E i \in 1..Len(signals) : signals[i].sig = "SIGKILL" /\ signals[i].running

C9_ForcedKillIsTimeout ==
    (pc = "returned" /\ killSentAtExit) =>
        (~result.success /\ HasTimeoutMarker(result))

\* C10: the timeout of a call is options.timeout when given and the default
\* otherwise; with an override below the default, a child that does not exit on
\* its own is signalled when the override has elapsed and the call returns
\* before the default has elapsed.
C10_OverridePrecedence ==
    /\ pc \in {"awaiting", "returned"} =>
          effTimeout = (IF "timeout" \in DOMAIN options THEN options.timeout
                        ELSE config.defaultTimeout)
    /\ ( /\ pc = "returned"
         /\ "timeout" \in DOMAIN options
         /\ options.timeout < config.defaultTimeout
         /\ "signal" \in DOMAIN proc.status ) =>
          /\ signals[1].at = startTime + options.timeout
          /\ result.duration < config.defaultTimeout

\* C11: every returned result has duration >= 0, and a result returned after
\* the deadline callback has run has a duration of at least the call's timeout.
C11_DurationBounds ==
    pc = "returned" =>
        /\ result.duration >= 0
        /\ timeoutHandle.state = "fired" => result.duration >= effTimeout

\* a result returned after the deadline callback signalled the child
C11_Witness ==
    /\ pc = "returned"
    /\ timeoutHandle.state = "fired"
    /\ Delivered("SIGTERM")
    /\ startTime > 0
    /\ result.duration >= effTimeout

\* the spawn of the call failed: spawn was called and there is no child
SpawnFailed == spawnCount > 0 /\ proc.os = "none"

\* C12: a call whose spawn failed has returned a failed result with a non-empty
\* error and no exitCode, and has not raised.
C12_SpawnFailureIsResult ==
    SpawnFailed =>
        /\ pc = "returned"
        /\ thrown = NoError
        /\ ~uncaught
        /\ ~result.success
        /\ "error" \in DOMAIN result
        /\ result.error # << >>
        /\ "exitCode" \notin DOMAIN result

\* C13: a call whose spawn failed has no timer, never had one, and no signal
\* was sent for it.
C13_NoTimerAfterSpawnFailure ==
    SpawnFailed =>
        /\ timersCreated = 0
        /\ timeoutHandle = NoTimer
        /\ graceTimer = NoTimer
        /\ signals = << >>

\* t is s without its leading and trailing whitespace
IsTrimOf(t, s) ==
    /\ t # << >> => (t[1] \notin {" "} /\ t[Len(t)] \notin {" "})
    /\ \E i \in 0..Len(s) :
          /\ i + Len(t) <= Len(s)
          /\ \A k \in 1..i : s[k] \in {" "}
          /\ \A k \in 1..Len(t) : s[i + k] = t[k]
          /\ \A k \in (i + Len(t) + 1)..Len(s) : s[k] \in {" "}

\* C14: when the child's own exit with code 0 is seen, the call returns
\* success, exitCode 0 and the collected stdout without its surrounding
\* whitespace; with nothing collected the output is the empty string.
C14_ZeroExitResult ==
    [][ ( /\ pc = "awaiting"
          /\ pc' = "returned"
          /\ "code" \in DOMAIN proc.status
          /\ proc.status.code = 0 ) =>
            /\ result'.success
            /\ result'.exitCode = 0
            /\ "error" \notin DOMAIN result'
            /\ IsTrimOf(result'.output, stdout)
            /\ stdout = << >> => result'.output = << >> ]_vars

\* a success whose collected stdout ended in whitespace that the output lacks
C14_Witness ==
    /\ pc = "returned"
    /\ result.success
    /\ exitSeenAt # -1
    /\ result.output = << "ok" >>
    /\ Len(stdout) = 2
    /\ stdout[2] = " "
    /\ pipeOut = << >>

\* C15: when the child's own exit with a code c other than 0 is seen, the call
\* returns a failure with exitCode c whose error is the collected stderr when
\* that is not empty, and a non-empty generic message otherwise.
C15_NonZeroExitResult ==
    [][ ( /\ pc = "awaiting"
          /\ pc' = "returned"
          /\ "code" \in DOMAIN proc.status
          /\ proc.status.code # 0 ) =>
            /\ ~result'.success
            /\ result'.exitCode = proc.status.code
            /\ "output" \notin DOMAIN result'
            /\ result'.error # << >>
            /\ stderr # << >> => result'.error = stderr
            /\ stderr = << >> => result'.error = << "Crew execution failed" >> ]_vars

\* exit code 2 with "boom" on stderr, reported as the error
C15_Witness ==
    /\ pc = "returned"
    /\ ~result.success
    /\ result.exitCode = 2
    /\ result.error = << "boom" >>

\* C22: every failed result the call returns has an error, and the error is
\* not the empty string, whether the child exited on its own with or without
\* stderr or was ended by a signal of the deadline.
C22_FailureHasMessage ==
    (pc = "returned" /\ ~result.success) =>
        /\ "error" \in DOMAIN result
        /\ result.error # << >>

\* the deadline's signal ended a child that had written nothing to stderr: the
\* failed result carries the generic message
C22_Witness ==
    /\ pc = "returned"
    /\ ~result.success
    /\ "signal" \in DOMAIN proc.status
    /\ stderr = << >>
    /\ result.error = << "Crew execution failed" >>

\* C23: the error of a returned result contains "timed out" exactly when the
\* child was ended by a signal of the deadline; a child that exits on its own
\* with a code other than 0 never gets the marker, whatever it wrote to stderr.
C23_MarkerIffDeadline ==
    pc = "returned" =>
        (HasTimeoutMarker(result) <=> "signal" \in DOMAIN proc.status)

\* C24: at every point of an invocation spawn has been called at most once,
\* at most one child holds a handle, and at most one of the invocation's timers
\* is pending.
C24_OneProcessOneTimer ==
    /\ spawnCount <= 1
    /\ proc.handle => spawnCount = 1
    /\ Cardinality({ h \in {"deadline", "grace"} :
                       IF h = "deadline" THEN timeoutHandle.state = "pending"
                       ELSE graceTimer.state = "pending" }) <= 1

\* the deadline callback has run and its second timer is pending, the child
\* still running: the invocation has had two timers, one at a time
C24_Witness ==
    /\ timersCreated = 2
    /\ timeoutHandle.state = "fired"
    /\ graceTimer.state = "pending"
    /\ proc.os = "running"
    /\ proc.handle

\* C26: a failed result that carries an exitCode carries a number other than
\* 0, also when the deadline callback had run and the child exited during the
\* grace interval.
C26_FailedExitCodeNonZero ==
    (pc = "returned" /\ ~result.success /\ "exitCode" \in DOMAIN result) =>
        /\ result.exitCode \in Int
        /\ result.exitCode # 0

\* the deadline callback ran, the child ignored SIGTERM and exited on its own
\* with code 2 during the grace interval: the failed result carries 2
C26_Witness ==
    /\ pc = "returned"
    /\ ~result.success
    /\ timeoutHandle.state = "fired"
    /\ Delivered("SIGTERM")
    /\ "code" \in DOMAIN proc.status
    /\ exitSeenAt > startTime + effTimeout
    /\ result.exitCode = 2

\* C27: when a child that ran past the timeout was ended by a signal of the
\* deadline, the call returns a failure whose error indicates the timeout and
\* which carries the output collected before the timeout.
C27_TimeoutKeepsPartialOutput ==
    (pc = "returned" /\ "signal" \in DOMAIN proc.status) =>
        /\ ~result.success
        /\ HasTimeoutMarker(result)
        /\ "output" \in DOMAIN result
        /\ result.output = Trim(stdout)

\* C30: a call whose package name fails the identifier pattern does not reject:
\* it resolves to a failed result whose error contains "validation".
C30_InvalidPackageResolves ==
    (options # NoOptions /\ C4_FailsPattern(options.package)) =>
        /\ pc = "returned"
        /\ thrown = NoError
        /\ ~result.success
        /\ "error" \in DOMAIN result
        /\ Includes(result.error, "validation")

\* C31: when the deadline callback has signalled the running child, a child
\* that then exits on its own before SIGKILL gives a timeout failure carrying
\* the exit code it reported, and a child that SIGKILL had to end gives a
\* timeout failure with no exitCode.
C31_GraceExitCode ==
    (pc = "returned" /\ \E i \in 1..Len(signals) :
                            signals[i].sig = "SIGTERM" /\ signals[i].running) =>
        /\ ~result.success
        /\ HasTimeoutMarker(result)
        /\ ("code" \in DOMAIN proc.status /\ ~killSentAtExit) =>
              ("exitCode" \in DOMAIN result /\ result.exitCode = proc.status.code)
        /\ killSentAtExit => "exitCode" \notin DOMAIN result

\* C32: the result of a child that exited on its own holds everything the
\* child wrote before it exited, whenever the 'data' events come relative to
\* the 'exit' event: on exit 0 the output is all of its stdout, trimmed; on
\* another code the error is all of its stderr, when it wrote any.
C32_NoChunkMissing ==
    (pc = "returned" /\ "code" \in DOMAIN proc.status) =>
        IF proc.status.code = 0
        THEN IsTrimOf(result.output, stdout \o pipeOut)
        ELSE (stderr \o pipeErr) # << >> => result.error = stderr \o pipeErr

IsPrefixOf(a, b) == Len(a) <= Len(b) /\ SubSeq(b, 1, Len(a)) = a

\* what a stream has carried so far: the chunks collected, then those still to
\* be delivered
Carried(collected, pipe) == collected \o pipe

\* C33: in every step the content collected from a stream only grows at its
\* end, and what the stream has carried (collected or still to be delivered)
\* stays as it is or gains one chunk at its end, so the collected content is the
\* stream's chunks in the order of delivery, none moved, lost or repeated;
\* stdout holds chunks of stdout only, stderr chunks of stderr only, and the
\* output of a success is made of stdout chunks.
C33_StreamOrder ==
    [][ /\ IsPrefixOf(stdout, stdout')
        /\ IsPrefixOf(stderr, stderr')
        /\ Len(stdout') <= Len(stdout) + 1
        /\ Len(stderr') <= Len(stderr) + 1
        /\ \/ Carried(stdout', pipeOut') = Carried(stdout, pipeOut)
           \/ \E c \in {"ok", " "} :
                 Carried(stdout', pipeOut') = Append(Carried(stdout, pipeOut), c)
        /\ \/ Carried(stderr', pipeErr') = Carried(stderr, pipeErr)
           \/ \E c \in {"boom", "timed out"} :
                 Carried(stderr', pipeErr') = Append(Carried(stderr, pipeErr), c)
        /\ \A k \in 1..Len(stdout') : stdout'[k] \in {"ok", " "}
        /\ \A k \in 1..Len(stderr') : stderr'[k] \in {"boom", "timed out"}
        /\ (pc' = "returned" /\ result'.success) =>
              \A k \in 1..Len(result'.output) : result'.output[k] \in {"ok", " "} ]_vars

\* the child wrote two different chunks to stdout and exited with code 0: they
\* were collected in the order written, and the output is made of them
C33_Witness ==
    /\ pc = "returned"
    /\ result.success
    /\ stdout = << " ", "ok" >>
    /\ pipeOut = << >>
    /\ result.output = << "ok" >>

ConfigCall == callArg # NoCall /\ callArg.fn = "validateConfig"

\* the fields of a config other than defaultTimeout have the types of the schema
OtherConfigFieldsTyped(raw) ==
    /\ raw.t = "object"
    /\ IsMissing(raw.map.pythonExecutable) \/ IsString(raw.map.pythonExecutable)
    /\ IsMissing(raw.map.crewAgentsPath) \/ IsString(raw.map.crewAgentsPath)
    /\ IsMissing(raw.map.env) \/ IsStringRecord(raw.map.env)

\* C17: with the other fields correctly typed, validateConfig accepts a config
\* exactly when its defaultTimeout is missing or a number greater than zero;
\* every config it returns has defaultTimeout > 0; a defaultTimeout of zero or
\* less is always refused.
C17_DefaultTimeoutPositive ==
    ConfigCall =>
        /\ OtherConfigFieldsTyped(callArg.raw) =>
              (callRet.ok <=>
                  \/ callArg.raw.map.defaultTimeout.t \in {"absent", "undefined"}
                  \/ /\ callArg.raw.map.defaultTimeout.t = "number"
                     /\ callArg.raw.map.defaultTimeout.num > 0)
        /\ callRet.ok => callRet.value.defaultTimeout > 0
        /\ (/\ callArg.raw.t = "object"
            /\ callArg.raw.map.defaultTimeout.t = "number"
            /\ callArg.raw.map.defaultTimeout.num <= 0) => ~callRet.ok

\* an otherwise well-typed config with defaultTimeout 0 is refused, and the
\* issue is on defaultTimeout
C17_Witness ==
    /\ ConfigCall
    /\ OtherConfigFieldsTyped(callArg.raw)
    /\ callArg.raw.map.defaultTimeout = Num(0)
    /\ ~callRet.ok
    /\ callRet.error.issues = << Issue("defaultTimeout", "too_small") >>

\* C18: a config that validateConfig returns has pythonExecutable 'uv' when
\* the given one is missing and defaultTimeout 300000 when the given one is
\* missing; a given pythonExecutable or defaultTimeout is returned as given.
C18_DefaultsAndGivenValues ==
    (ConfigCall /\ callRet.ok) =>
        /\ callRet.value.pythonExecutable =
              IF callArg.raw.map.pythonExecutable.t \in {"absent", "undefined"}
              THEN << "u", "v" >>
              ELSE callArg.raw.map.pythonExecutable.str
        /\ callRet.value.defaultTimeout =
              IF callArg.raw.map.defaultTimeout.t \in {"absent", "undefined"}
              THEN 300000
              ELSE callArg.raw.map.defaultTimeout.num

\* a config with neither field comes back with both defaults
C18_Witness ==
    /\ ConfigCall
    /\ callArg.raw.t = "object"
    /\ callArg.raw.map.pythonExecutable = Absent
    /\ callArg.raw.map.defaultTimeout = Absent
    /\ callRet.ok
    /\ callRet.value.pythonExecutable = << "u", "v" >>
    /\ callRet.value.defaultTimeout = 300000

InvokeOptionsCall == callArg # NoCall /\ callArg.fn = "validateInvokeOptions"

\* an object whose package, crew and input are strings
StringFieldsGiven(raw) ==
    /\ raw.t = "object"
    /\ raw.map.package.t = "string"
    /\ raw.map.crew.t = "string"
    /\ raw.map.input.t = "string"

\* non-empty and made of letters, digits, underscores and hyphens only
IdentifierAccepted(s) ==
    s # << >> /\ { s[i] : i \in 1..Len(s) } \subseteq IdentChars

\* C19: of the values whose package, crew and input are strings,
\* validateInvokeOptions accepts exactly those whose package and crew are
\* non-empty and match the pattern, whose timeout is missing or a number > 0,
\* and whose env is missing or an object of strings, whatever the input is; what
\* it returns has the package, crew, input and timeout that were given.
C19_InvokeOptionsAccepted ==
    (InvokeOptionsCall /\ StringFieldsGiven(callArg.raw)) =>
        /\ callRet.ok <=>
              /\ IdentifierAccepted(callArg.raw.map.package.str)
              /\ IdentifierAccepted(callArg.raw.map.crew.str)
              /\ \/ callArg.raw.map.timeout.t \in {"absent", "undefined"}
                 \/ /\ callArg.raw.map.timeout.t = "number"
                    /\ callArg.raw.map.timeout.num > 0
              /\ \/ callArg.raw.map.env.t \in {"absent", "undefined"}
                 \/ /\ callArg.raw.map.env.t = "object"
                    /\ \A k \in DOMAIN callArg.raw.map.env.map :
                          callArg.raw.map.env.map[k].t = "string"
        /\ callRet.ok =>
              /\ callRet.value.package = callArg.raw.map.package.str
              /\ callRet.value.crew = callArg.raw.map.crew.str
              /\ callRet.value.input = callArg.raw.map.input.str
              /\ IF callArg.raw.map.timeout.t = "number"
                 THEN callRet.value.timeout = callArg.raw.map.timeout.num
                 ELSE "timeout" \notin DOMAIN callRet.value

\* good package and crew, the empty input, timeout 3000 and an env of strings:
\* accepted and returned as given
C19_Witness ==
    /\ InvokeOptionsCall
    /\ StringFieldsGiven(callArg.raw)
    /\ callArg.raw.map.input = Str(<< >>)
    /\ callArg.raw.map.timeout = Num(3000)
    /\ callArg.raw.map.env = Obj([k \in {"A"} |-> Str(<< "1" >>)])
    /\ callRet.ok
    /\ callRet.value.input = << >>
    /\ callRet.value.timeout = 3000
    /\ callRet.value.package = GoodPackage

\* the rules of the request, in their order: 1 the identifiers, 2 the payload,
\* 3 the timeout, 4 the env
RuleOfField(field) ==
    CASE field \in {"package", "crew"} -> 1
      [] field = "input" -> 2
      [] field = "timeout" -> 3
      [] field = "env" -> 4
      [] OTHER -> 0

RuleFails(raw, rule) ==
    CASE rule = 1 ->
            \/ ~(raw.map.package.t = "string" /\ IdentifierAccepted(raw.map.package.str))
            \/ ~(raw.map.crew.t = "string" /\ IdentifierAccepted(raw.map.crew.str))
      [] rule = 2 -> raw.map.input.t # "string"
      [] rule = 3 ->
            /\ raw.map.timeout.t \notin {"absent", "undefined"}
            /\ ~(raw.map.timeout.t = "number" /\ raw.map.timeout.num > 0)
      [] rule = 4 ->
            /\ raw.map.env.t \notin {"absent", "undefined"}
            /\ ~(/\ raw.map.env.t = "object"
                 /\ \A k \in DOMAIN raw.map.env.map : raw.map.env.map[k].t = "string")

FailingRules(raw) == { rule \in 1..4 : RuleFails(raw, rule) }

FirstFailingRule(raw) ==
    CHOOSE rule \in FailingRules(raw) : \A other \in FailingRules(raw) : rule <= other

\* a call of validateInvokeOptions on an object that breaks two rules or more
SeveralRulesBroken ==
    /\ InvokeOptionsCall
    /\ callArg.raw.t = "object"
    /\ Cardinality(FailingRules(callArg.raw)) >= 2

ReportedRules == { RuleOfField(callRet.error.issues[i].field)
                   : i \in 1..Len(callRet.error.issues) }

\* C20 as stated: when a request breaks several rules, the error reports the
\* first failing rule and no other, and names the failing field.
C20_FirstFailureOnly ==
    SeveralRulesBroken =>
        /\ ~callRet.ok
        /\ ReportedRules = { FirstFailingRule(callArg.raw) }

\* C20 as amended: when a request breaks several rules, the error reports
\* every failing rule and no other, in the order identifiers, payload, timeout,
\* env, so that its first issue is that of the first failing rule; every issue
\* names its field.
C20_EveryFailureInOrder ==
    SeveralRulesBroken =>
        /\ ~callRet.ok
        /\ ReportedRules = FailingRules(callArg.raw)
        /\ \A i, j \in 1..Len(callRet.error.issues) :
              i < j => RuleOfField(callRet.error.issues[i].field)
                          <= RuleOfField(callRet.error.issues[j].field)
        /\ RuleOfField(callRet.error.issues[1].field) = FirstFailingRule(callArg.raw)
        /\ \A i \in 1..Len(callRet.error.issues) :
              callRet.error.issues[i].field \in {"package", "crew", "input", "timeout", "env"}

\* { package: '', crew: 'a/', input: 'x', timeout: -100 }: the error has the two
\* issues of package, that of crew and that of timeout
C20_Witness ==
    /\ SeveralRulesBroken
    /\ callArg.raw.map.package = Str(<< >>)
    /\ callArg.raw.map.crew = Str(<< "a", "/" >>)
    /\ callArg.raw.map.input = Str(Payload)
    /\ callArg.raw.map.timeout = Num(-100)
    /\ callArg.raw.map.env = Absent
    /\ callRet.error.issues =
          << Issue("package", "too_small"), Issue("package", "invalid_string"),
             Issue("crew", "invalid_string"), Issue("timeout", "too_small") >>

\* C21: an error of validateConfig is a CrewToolError of category config, an
\* error of validateInvokeOptions a CrewToolError of category validation, and
\* neither raises anything else.
C21_ValidatorErrorsCategorised ==
    /\ (ConfigCall /\ ~callRet.ok) =>
          /\ callRet.error.name = "CrewToolError"
          /\ "category" \in DOMAIN callRet.error
          /\ callRet.error.category = "config"
    /\ (InvokeOptionsCall /\ ~callRet.ok) =>
          /\ callRet.error.name = "CrewToolError"
          /\ "category" \in DOMAIN callRet.error
          /\ callRet.error.category = "validation"

ListCall == callArg # NoCall /\ callArg.fn = "listCrews"

C29_TypeMismatchRejected ==
    ( /\ InvokeOptionsCall
      /\ \/ callArg.raw.t # "object"
         \/ \E f \in {"package", "crew", "input"} : callArg.raw.map[f].t # "string"
         \/ /\ callArg.raw.map.timeout.t \notin {"absent", "undefined"}
            /\ \/ callArg.raw.map.timeout.t # "number"
               \/ callArg.raw.map.timeout.num <= 0 ) =>
        /\ ~callRet.ok
        /\ callRet.error.issues # << >>
        /\ callRet.error.message # << >>

\* an object with good package and crew and no input is refused, the issue on
\* input
C29_Witness ==
    /\ InvokeOptionsCall
    /\ callArg.raw.t = "object"
    /\ callArg.raw.map.package = Str(GoodPackage)
    /\ callArg.raw.map.crew = Str(GoodCrew)
    /\ callArg.raw.map.input = Absent
    /\ callArg.raw.map.timeout = Absent
    /\ callArg.raw.map.env = Absent
    /\ ~callRet.ok
    /\ callRet.error.issues = << Issue("input", "invalid_type") >>
    /\ callRet.error.message # << >>

\* C35: a key the schema does not know changes nothing: a config with such a
\* key is accepted exactly when the same config without the key is, the two
\* results are equal in pythonExecutable, crewAgentsPath, defaultTimeout and
\* env, and the key is not in the result.
C35_UnknownKeysIgnored ==
    (ConfigCall /\ callArg.raw.t = "object" /\ callArg.raw.map.extra # Absent) =>
        LET without == ValidateConfig(Obj([callArg.raw.map EXCEPT !.extra = Absent]))
        IN /\ callRet.ok = without.ok
           /\ callRet.ok =>
                 /\ "extra" \notin DOMAIN callRet.value
                 /\ DOMAIN callRet.value = DOMAIN without.value
                 /\ \A k \in DOMAIN callRet.value : callRet.value[k] = without.value[k]

\* a config with every known field and an unknown one was accepted
C35_Witness ==
    /\ ConfigCall
    /\ callArg.raw.t = "object"
    /\ callArg.raw.map.extra = Num(1)
    /\ callRet.ok
    /\ callRet.value = [pythonExecutable |-> << "p", "y" >>, crewAgentsPath |-> << "." >>,
                        defaultTimeout |-> 5000, env |-> [k \in {"A"} |-> << "1" >>]]

\* C36: a validator applied to what it returned returns it again: the second
\* application is accepted and its result equals the first one, for
\* validateConfig and for validateInvokeOptions.
C36_Idempotent ==
    (callArg # NoCall /\ "first" \in DOMAIN callArg) =>
        /\ callRet.ok
        /\ callRet.value = callArg.first.value

\* validateConfig filled in both defaults, and the second application kept them
C36_Witness ==
    /\ callArg # NoCall
    /\ "first" \in DOMAIN callArg
    /\ callArg.fn = "validateConfig"
    /\ callArg.first.value = [pythonExecutable |-> DefaultPythonExecutable,
                              defaultTimeout |-> DefaultTimeout]
    /\ callRet.ok
    /\ callRet.value = callArg.first.value

ParseArgsCall == callArg # NoCall /\ callArg.fn = "parseArgs"

\* a text that writes a positive integer: digits only, not all of them zero
PositiveIntegerText(s) ==
    /\ s # << >>
    /\ \A i \in 1..Len(s) : s[i] \in {"0", "1", "2", "3", "5"}
    /\ \E i \in 1..Len(s) : s[i] # "0"

\* C39: the timeout of the options parseArgs returns is a number greater than
\* zero, whatever the arguments and whatever AGENTIC_SANDBOX_TIMEOUT holds; and
\* parseArgs throws when the value that follows --timeout (or -t) is not the
\* text of a positive integer.
C39_TimeoutPositive ==
    ParseArgsCall =>
        /\ callRet.ok =>
              /\ callRet.value.timeout.t = "number"
              /\ callRet.value.timeout.num > 0
        /\ ( /\ Len(callArg.args) >= 2
             /\ callArg.args[1] \in {<< "-", "-", "timeout" >>, << "-", "t" >>}
             /\ ~PositiveIntegerText(callArg.args[2]) ) => ~callRet.ok

C37_TimeoutExits ==
    /\ (raceTimer.state = "fired" /\ runtimePromise = Pending) =>
          /\ processExit = Exited(1)
          /\ extractCalls = 0
          /\ "complete" \notin printed
    /\ processExit = Exited(0) =>
          /\ runtimePromise = Resolved([success |-> TRUE])
          /\ race.by = "runtime"
          /\ race.settled = runtimePromise
          /\ race.at <= raceTimer.due

\* the runtime was still running when the timer of a two-second timeout fired
C37_Witness ==
    /\ raceTimer.state = "fired"
    /\ raceTimer.due = 2000
    /\ runtimePromise = Pending
    /\ race.by = "timeout"
    /\ processExit = Exited(1)
    /\ extractCalls = 0
    /\ printed = {"banner", "error"}

\* C38: once the runtime has settled the race, the timer of the timeout is
\* pending no more: in particular it is not pending when the completion
\* message has been printed and main has returned, so that no callback is left
\* to run and nothing keeps the process alive.
C38_TimerReleased ==
    (processExit = Alive /\ race.by = "runtime") => raceTimer.state # "pending"

\* the script path customRuntime works on
CustomCalled ==
    /\ mainOptions # NoOptions
    /\ RuntimeOf(mainOptions) = << "custom" >>
    /\ "banner" \in printed

\* C40: customRuntime spawns nothing and its promise is rejected when the
\* script path, taken from options.script or else from AGENTIC_CUSTOM_SCRIPT,
\* is missing or holds one of | & ; ` $; and once it has spawned, its promise
\* is resolved only with success true and only after a close with code 0, and
\* is rejected after a close with any other code and after a spawn error.
C40_CustomRuntimeGuarded ==
    CustomCalled =>
        LET script == IF Truthy(mainOptions.script) THEN mainOptions.script
                      ELSE sandboxEnv.script
        IN /\ ( \/ ~Truthy(script)
                \/ \E c \in {"|", "&", ";", "backquote", "$"} : Includes(script.str, c) ) =>
                 /\ customProc.state = "none"
                 /\ runtimePromise.kind = "rejected"
           /\ runtimePromise.kind = "resolved" =>
                 /\ runtimePromise.value = [success |-> TRUE]
                 /\ customProc = [state |-> "closed", code |-> Num(0)]
           /\ (customProc.state = "closed" /\ customProc.code # Num(0)) =>
                 runtimePromise.kind = "rejected"
           /\ customProc.state \in {"errored", "spawn_threw"} =>
                 runtimePromise.kind = "rejected"

\* a script path with a dollar in it was refused: nothing was spawned
C40_Witness ==
    /\ CustomCalled
    /\ mainOptions.script = Str(<< "a", "$", "b" >>)
    /\ customProc.state = "none"
    /\ runtimePromise.kind = "rejected"
    /\ processExit = Exited(1)

====
